---------------------------- MODULE Spec2Model ----------------------------
(***************************************************************************)
(* A model of udp-node (src/index.js): the UdpNode class, its built-in     *)
(* ping / pong / broadcast protocol, the interest filter and the custom    *)
(* event registry, for a small network of nodes that exchange datagrams.   *)
(*                                                                         *)
(* JavaScript values are modelled as follows.                              *)
(*   - An object is a record holding exactly the properties that are       *)
(*     defined; reading a missing property gives undefined, so a test such *)
(*     as `!message.filter` is "the field is missing or falsy".            *)
(*   - Undefined string-valued arguments are the string UNDEF, null is     *)
(*     NULL; an undefined numeric argument (a port) is 0: both are falsy   *)
(*     and the code only ever tests them with `||`.                        *)
(*   - A callback is a name that says what the function does when called.  *)
(***************************************************************************)
EXTENDS Integers, Sequences, FiniteSets, Bags, TLC

\* ------------------------------------------------------------------ bounds

\* set() calls per node (each call adds one more 'message' listener).
MaxSets == 2
\* datagrams in flight at once.
MaxInFlight == 2
\* handlers in one registry entry.
MaxHandlers == 2
\* API calls made by the applications in one behaviour of SpecDiscovery.
MaxOps == 4
\* API calls in one behaviour of SpecNode.
MaxCalls == 3
\* API calls in one behaviour of SpecRegistry.
MaxRegistryCalls == 5
\* API calls in one behaviour of SpecLifecycle.
MaxLifeCalls == 4
\* API calls in one behaviour of SpecInbound.
MaxInboundCalls == 4
\* API calls in one behaviour of SpecReentrant.
MaxReentrantCalls == 4

\* --------------------------------------------------------------- constants

DEFAULT_PORT == 3024
ALT_PORT == 3025
BROADCAST_ADDRESS == "255.255.255.255"

UNDEF == "<undefined>"
NULL == "<null>"

Nodes == {"n1", "n2"}

\* uuid() at construction: distinct per node.
Uuid(n) == IF n = "n1" THEN "uuid-1" ELSE "uuid-2"

\* The host address of a node's socket (what a receiver sees as rinfo.address).
Addr(n) == IF n = "n1" THEN "10.0.0.1" ELSE "10.0.0.2"

\* The error messages of the thrown Errors.
ERR_NOT_SETUP == "Current node was not set up"
ERR_PING_ADDRESS == "Required params for ping method: address"
ERR_SEND_TYPE == "Missing property message.type"
ERR_ON_TYPE == "Missing param type when calling on"
ERR_ON_CALLBACK == "Missing param callback when calling on"
ERR_ON_NOT_FUNCTION == "Invalid param callback when calling on"
ERR_OFF_TYPE == "Missing param type when calling off"
ERR_TYPE_ERROR == "TypeError"
ERR_NOT_RUNNING == "dgram: Not running"
ERR_ALREADY_BOUND == "dgram: Socket is already bound"
NO_ERROR == "none"

\* ----------------------------------------------------------------- helpers

Has(obj, f) == f \in DOMAIN obj

\* JavaScript truthiness of a string-or-undefined value.
Falsy(v) == v \in {UNDEF, NULL, ""}

\* a || b for strings.
OrS(a, b) == IF Falsy(a) THEN b ELSE a

\* a || b for numbers.
OrN(a, b) == IF a = 0 THEN b ELSE a

\* obj with property f set to v (added when missing).
Put(obj, f, v) ==
  [k \in DOMAIN obj \cup {f} |-> IF k = f THEN v ELSE obj[k]]

\* indexOf(x) !== -1
Includes(seq, x) == \E i \in 1..Len(seq) : seq[i] = x

\* splice(index) without the delete count: everything from index on goes.
Splice1_ToEnd(seq, index) ==
  LET start == IF index < 0 THEN (IF Len(seq) + index < 0 THEN 0 ELSE Len(seq) + index)
               ELSE (IF index > Len(seq) THEN Len(seq) ELSE index)
  IN SubSeq(seq, 1, start)

\* Array.prototype.splice(index, 1) on a 1-based sequence; index is the
\* JavaScript (0-based, negative counts from the end) index.
Splice1(seq, index) ==
  LET start == IF index < 0 THEN (IF Len(seq) + index < 0 THEN 0 ELSE Len(seq) + index)
               ELSE (IF index > Len(seq) THEN Len(seq) ELSE index)
  IN SubSeq(seq, 1, start) \o SubSeq(seq, start + 2, Len(seq))

\* The defined properties of obj: JSON.stringify leaves out the properties
\* whose value is undefined, JSON.parse gives back the rest.
JsonRoundTrip(obj) ==
  [k \in {f \in DOMAIN obj : ~(f \in {"data", "type", "address", "from"} /\ obj[f] = UNDEF)}
     |-> obj[k]]

\* ------------------------------------------------------------- the program

VARIABLES
  config,          \* node -> this.config
  events,          \* node -> this.events (type -> list of callbacks)
  onNodeCallback,  \* node -> this.onNodeCallback
  isClosed,        \* node -> this.isClosed
  listeners,       \* node -> number of 'message' listeners on this.client
  bound,           \* node -> the port this.client is bound to (0: not bound)
  declared,        \* node -> the `type` option of the node's last set()
  closes,          \* node -> number of this.client.close() calls
  net,             \* the datagrams in flight (a bag of packets)
  ops,             \* API calls made so far
  last             \* what the last step did and returned

vars == <<config, events, onNodeCallback, isClosed, listeners, bound, declared,
          closes, net, ops, last>>

\* wasSetup(): the config has more keys than `id`.
wasSetup(cfg) == Cardinality(DOMAIN cfg) > 1

\* message.type as a property key: a message without a type gives the key
\* "undefined".
TypeOf(message) == IF Has(message, "type") THEN message.type ELSE "undefined"

\* Property names every object inherits from Object.prototype.
OBJECT_PROTOTYPE == {"constructor", "toString"}

\* isCustomEvent(type): type in this.events; `in` looks through the
\* prototype chain as well.
isCustomEvent(evs, type) == type \in DOMAIN evs \cup OBJECT_PROTOTYPE

\* A datagram whose bytes JSON.parse rejects; and the datagram `null`, which
\* parses to a value whose `type` cannot be read. A decoded datagram is
\* the object it parses to.
UNDECODABLE == [malformed |-> "{type: ping"]
JSON_NULL == [malformed |-> "null"]

\* JSON.parse(message.toString()) returned and message.type can be read.
Decodes(message) == ~Has(message, "malformed")

\* isNodeOfInterest with the unfiltered rule decided before the self check.
isNodeOfInterest_FilterFirst(cfg, message) ==
  IF ~Has(message, "filter") \/ Len(message.filter) = 0 THEN TRUE
  ELSE IF Has(message, "from") /\ message.from = cfg.id THEN FALSE
  ELSE IF ~Has(cfg, "type") THEN TRUE
  ELSE Includes(message.filter, cfg.type)

\* isNodeOfInterest(message). set() never copies the `type` option into
\* this.config, so this.config.type is read from the config as it is.
isNodeOfInterest(cfg, message) ==
  IF Has(message, "from") /\ message.from = cfg.id THEN FALSE
  ELSE IF ~Has(message, "filter") \/ Len(message.filter) = 0 THEN TRUE
  ELSE IF ~Has(cfg, "type") THEN TRUE
  ELSE Includes(message.filter, cfg.type)

\* The stamping of send() with a `from` the caller supplied left alone.
Stamped_KeepsFrom(cfg, message) ==
  LET m1 == IF Has(message, "from") THEN message ELSE Put(message, "from", cfg.id)
      m2 == Put(m1, "port", OrN(IF Has(m1, "port") THEN m1.port ELSE 0, DEFAULT_PORT))
  IN Put(m2, "address",
         OrS(IF Has(m2, "address") THEN m2.address ELSE UNDEF, BROADCAST_ADDRESS))

\* The stamping of send(): the sender's id and the defaults.
Stamped(cfg, message) ==
  LET m1 == Put(message, "from", cfg.id)
      m2 == Put(m1, "port", OrN(IF Has(m1, "port") THEN m1.port ELSE 0, DEFAULT_PORT))
  IN Put(m2, "address",
         OrS(IF Has(m2, "address") THEN m2.address ELSE UNDEF, BROADCAST_ADDRESS))

\* send with the type check made before the set-up check.
send_TypeCheckFirst(cfg, closed, message) ==
  IF ~Has(message, "type") \/ Falsy(message.type)
  THEN [error |-> ERR_SEND_TYPE, envelope |-> message, wire |-> <<>>]
  ELSE IF ~wasSetup(cfg)
  THEN [error |-> ERR_NOT_SETUP, envelope |-> message, wire |-> <<>>]
  ELSE IF closed
  THEN [error |-> ERR_NOT_RUNNING, envelope |-> Stamped(cfg, message), wire |-> <<>>]
  ELSE [error |-> NO_ERROR, envelope |-> Stamped(cfg, message),
        wire |-> <<JsonRoundTrip(Stamped(cfg, message))>>]

\* send with the message stamped before the type check.
send_StampFirst(cfg, closed, message) ==
  IF ~wasSetup(cfg)
  THEN [error |-> ERR_NOT_SETUP, envelope |-> message, wire |-> <<>>]
  ELSE IF ~Has(message, "type") \/ Falsy(message.type)
  THEN [error |-> ERR_SEND_TYPE, envelope |-> Stamped(cfg, message), wire |-> <<>>]
  ELSE IF closed
  THEN [error |-> ERR_NOT_RUNNING, envelope |-> Stamped(cfg, message), wire |-> <<>>]
  ELSE [error |-> NO_ERROR, envelope |-> Stamped(cfg, message),
        wire |-> <<JsonRoundTrip(Stamped(cfg, message))>>]

\* send(message, callback): what it throws, the caller's message object after
\* the call, and the datagrams handed to this.client.send.
send(cfg, closed, message) ==
  IF ~wasSetup(cfg)
  THEN [error |-> ERR_NOT_SETUP, envelope |-> message, wire |-> <<>>]
  ELSE IF ~Has(message, "type") \/ Falsy(message.type)
  THEN [error |-> ERR_SEND_TYPE, envelope |-> message, wire |-> <<>>]
  ELSE LET m3 == Stamped(cfg, message)
       IN IF closed
          THEN [error |-> ERR_NOT_RUNNING, envelope |-> m3, wire |-> <<>>]
          ELSE [error |-> NO_ERROR, envelope |-> m3, wire |-> <<JsonRoundTrip(m3)>>]

\* pong(message, rinfo): the message object it builds.
pongMessage(cfg, rinfo) ==
  [type |-> "pong", port |-> rinfo.port, address |-> rinfo.address, node |-> cfg]

pong(cfg, rinfo) == send(cfg, FALSE, pongMessage(cfg, rinfo))

\* Calling this.onNodeCallback(message, rinfo): whether a function was
\* entered, and whether the call threw.
CallOnNode(slot) ==
  CASE slot = UNDEF -> [invoked |-> FALSE, threw |-> TRUE]
    [] slot = "cbRaise" -> [invoked |-> TRUE, threw |-> TRUE]
    [] OTHER -> [invoked |-> TRUE, threw |-> FALSE]

Invocation(cb, message, rinfo) == [callback |-> cb, message |-> message, rinfo |-> rinfo]

\* raised: an exception left the listener.
Quiet ==
  [calls |-> <<>>, handled |-> <<>>, wire |-> <<>>, caught |-> FALSE, invalid |-> FALSE,
   raised |-> FALSE]

\* An exception reached the catch of the listener: it is logged, and so is
\* the invalid message after it.
Caught == [Quiet EXCEPT !.caught = TRUE, !.invalid = TRUE]

\* onPing(message, rinfo) and onBroadcast(message, rinfo), which have the
\* same body, run inside the listener's try block.
onPing(cfg, slot, message, rinfo) ==
  IF ~isNodeOfInterest(cfg, message) THEN Quiet
  ELSE LET c == CallOnNode(slot)
           calls == IF c.invoked THEN <<Invocation(slot, message, rinfo)>> ELSE <<>>
       IN IF c.threw
          THEN [Quiet EXCEPT !.calls = calls, !.caught = TRUE, !.invalid = TRUE]
          ELSE LET p == pong(cfg, rinfo)
               IN [Quiet EXCEPT !.calls = calls, !.wire = p.wire,
                                !.caught = (p.error # NO_ERROR),
                                !.invalid = (p.error # NO_ERROR)]

onBroadcast(cfg, slot, message, rinfo) == onPing(cfg, slot, message, rinfo)

\* onPong(message, rinfo)
onPong(cfg, slot, message, rinfo) ==
  LET c == CallOnNode(slot)
  IN [Quiet EXCEPT !.calls = IF c.invoked THEN <<Invocation(slot, message, rinfo)>> ELSE <<>>,
                   !.caught = c.threw, !.invalid = c.threw]

\* off(type) that empties the list and keeps the entry.
deleteEntry_KeepsKey(evs, type) ==
  [t \in DOMAIN evs |-> IF t = type THEN <<>> ELSE evs[t]]

\* delete this.events[type]
deleteEntry(evs, type) == [t \in DOMAIN evs \ {type} |-> evs[t]]

\* What the handlers of the applications do when called: h1 and h2 return,
\* hRaise throws, hOff0 calls off(type, 0) as the handler of the test
\* 'should turn off one custom message listener' does, hOffAll calls
\* off(type) and hOn calls on(type, h2), each for the type it handles.
\* arr is the array map() iterates, evs the registry and linked says that
\* evs[type] is that very array.
callHandler(h, arr, evs, linked, type) ==
  CASE h = "hRaise" -> [arr |-> arr, events |-> evs, linked |-> linked, threw |-> TRUE]
    [] h = "hOff0" ->
         IF type \notin DOMAIN evs
         THEN [arr |-> arr, events |-> evs, linked |-> linked, threw |-> TRUE]
         ELSE [arr |-> IF linked THEN Splice1(arr, 0) ELSE arr,
               events |-> Put(evs, type, Splice1(evs[type], 0)),
               linked |-> linked, threw |-> FALSE]
    [] h = "hOffAll" ->
         [arr |-> arr, events |-> deleteEntry(evs, type), linked |-> FALSE, threw |-> FALSE]
    [] h = "hOn" ->
         IF type \in DOMAIN evs
         THEN [arr |-> IF linked THEN Append(arr, "h2") ELSE arr,
               events |-> Put(evs, type, Append(evs[type], "h2")),
               linked |-> linked, threw |-> FALSE]
         ELSE [arr |-> arr, events |-> Put(evs, type, <<"h2">>),
               linked |-> FALSE, threw |-> FALSE]
    [] OTHER -> [arr |-> arr, events |-> evs, linked |-> linked, threw |-> FALSE]

\* Array.prototype.map from index k on: it visits the indices below the
\* length the array had when map() was called (len0) and skips an index the
\* array no longer has; a throwing callback ends it. ran: the callbacks
\* entered so far and, in the result, all of them; events: the registry
\* afterwards. (e ranges over the one outcome of the call.)
RECURSIVE RunHandlers(_, _, _, _, _, _, _)
RunHandlers(k, len0, arr, evs, linked, type, ran) ==
  IF k >= len0 THEN [ran |-> ran, events |-> evs, threw |-> FALSE]
  ELSE IF k >= Len(arr) THEN RunHandlers(k + 1, len0, arr, evs, linked, type, ran)
  ELSE CHOOSE r \in
         {IF e.threw
          THEN [ran |-> Append(ran, arr[k + 1]), events |-> e.events, threw |-> TRUE]
          ELSE RunHandlers(k + 1, len0, e.arr, e.events, e.linked, type,
                           Append(ran, arr[k + 1]))
            : e \in {callHandler(arr[k + 1], arr, evs, linked, type)}} : TRUE

\* this.events[type].map(...) of onCustomEvent.
mapHandlers(evs, type) ==
  RunHandlers(0, Len(evs[type]), evs[type], evs, TRUE, type, <<>>)

\* onCustomEvent(type, message, rinfo); on() lets only functions into a list.
\* For an inherited property name this.events[type] is not an array and has
\* no map: a TypeError.
onCustomEvent(evs, type, message, rinfo) ==
  IF type \notin DOMAIN evs THEN Caught
  ELSE LET r == mapHandlers(evs, type)
       IN [Quiet EXCEPT
             !.handled = [i \in 1..Len(r.ran) |-> Invocation(r.ran[i], message, rinfo)],
             !.caught = r.threw, !.invalid = r.threw]

\* One 'message' listener with the registry looked up before the built-in
\* types.
onMessage_CustomFirst(cfg, slot, evs, message, rinfo) ==
  IF ~Decodes(message) THEN Caught
  ELSE IF isCustomEvent(evs, TypeOf(message))
  THEN onCustomEvent(evs, TypeOf(message), message, rinfo)
  ELSE IF Has(message, "type") /\ message.type = "ping" THEN onPing(cfg, slot, message, rinfo)
  ELSE IF Has(message, "type") /\ message.type = "pong" THEN onPong(cfg, slot, message, rinfo)
  ELSE IF Has(message, "type") /\ message.type = "broadcast"
  THEN onBroadcast(cfg, slot, message, rinfo)
  ELSE [Quiet EXCEPT !.invalid = TRUE]

\* One 'message' listener that parses outside its try block.
onMessage_ParseOutsideTry(cfg, slot, evs, message, rinfo) ==
  IF ~Decodes(message) THEN [Quiet EXCEPT !.raised = TRUE]
  ELSE IF Has(message, "type") /\ message.type = "ping" THEN onPing(cfg, slot, message, rinfo)
  ELSE IF Has(message, "type") /\ message.type = "pong" THEN onPong(cfg, slot, message, rinfo)
  ELSE IF Has(message, "type") /\ message.type = "broadcast"
  THEN onBroadcast(cfg, slot, message, rinfo)
  ELSE IF isCustomEvent(evs, TypeOf(message))
  THEN onCustomEvent(evs, TypeOf(message), message, rinfo)
  ELSE [Quiet EXCEPT !.invalid = TRUE]

\* One 'message' listener (the arrow function set() registers) on a
\* datagram: everything that throws is inside its try block.
onMessage(cfg, slot, evs, message, rinfo) ==
  IF ~Decodes(message) THEN Caught
  ELSE IF Has(message, "type") /\ message.type = "ping" THEN onPing(cfg, slot, message, rinfo)
  ELSE IF Has(message, "type") /\ message.type = "pong" THEN onPong(cfg, slot, message, rinfo)
  ELSE IF Has(message, "type") /\ message.type = "broadcast"
  THEN onBroadcast(cfg, slot, message, rinfo)
  ELSE IF isCustomEvent(evs, TypeOf(message))
  THEN onCustomEvent(evs, TypeOf(message), message, rinfo)
  ELSE [Quiet EXCEPT !.invalid = TRUE]

\* this.events after one listener has handled the datagram: only the
\* handlers of a custom event change it.
registryAfter(evs, message) ==
  IF /\ Decodes(message)
     /\ TypeOf(message) \notin {"ping", "pong", "broadcast"}
     /\ TypeOf(message) \in DOMAIN evs
  THEN mapHandlers(evs, TypeOf(message)).events
  ELSE evs

\* What the listeners that ran so far did (acc) and what one more did.
Joined(acc, one) ==
  [calls |-> acc.calls \o one.calls, handled |-> acc.handled \o one.handled,
   wire |-> acc.wire \o one.wire, caught |-> acc.caught \/ one.caught,
   invalid |-> acc.invalid \/ one.invalid, raised |-> acc.raised \/ one.raised]

\* The k listeners still to run, after listeners that did acc: each runs
\* with the registry as the listeners before it left it, and an exception
\* that leaves a listener ends the emit. (done and after range over the one
\* outcome of the next listener.)
RECURSIVE emitFrom(_, _, _, _, _, _, _)
emitFrom(cfg, slot, evs, k, message, rinfo, acc) ==
  IF k = 0 \/ acc.raised
  THEN [calls |-> acc.calls, handled |-> acc.handled, wire |-> acc.wire,
        caught |-> acc.caught, invalid |-> acc.invalid, raised |-> acc.raised,
        events |-> evs]
  ELSE CHOOSE out \in
         {emitFrom(cfg, slot, after, k - 1, message, rinfo, done)
            : done \in {Joined(acc, one) : one \in {onMessage(cfg, slot, evs, message, rinfo)}},
              after \in {registryAfter(evs, message)}} : TRUE

\* The socket emits 'message' to each of its k listeners in turn.
emitMessage(cfg, slot, evs, k, message, rinfo) ==
  emitFrom(cfg, slot, evs, k, message, rinfo, Quiet)


\* ------------------------------------------------------------ the transport

\* The nodes whose socket receives a datagram sent to address:port.
Recipients(address, port) ==
  {r \in Nodes : /\ bound[r] = port
                 /\ ~isClosed[r]
                 /\ address \in {Addr(r), BROADCAST_ADDRESS}}

\* The packets that one this.client.send of node n puts in flight.
Packets(n, wire) ==
  IF wire = <<>> THEN EmptyBag
  ELSE LET w == wire[1]
       IN SetToBag({[msg |-> w, rinfo |-> [address |-> Addr(n), port |-> bound[n]], to |-> r]
                      : r \in Recipients(w.address, w.port)})

\* this.client.bind(port): a socket binds once; dgram refuses a second bind
\* and a bind after close, and the socket stays as it was.
Bind(n, port) == IF bound[n] = 0 /\ ~isClosed[n] THEN port ELSE bound[n]

\* What this.client.bind throws, and set() with it: the statements of set()
\* before the bind have run by then.
BindError(n) ==
  IF isClosed[n] THEN ERR_NOT_RUNNING
  ELSE IF bound[n] # 0 THEN ERR_ALREADY_BOUND
  ELSE NO_ERROR

Fits(bag) == BagCardinality(bag) <= MaxInFlight

\* -------------------------------------------------------------- operations

\* this.events = {}
NoEvents == [t \in {} |-> <<>>]

Init ==
  /\ config = [n \in Nodes |-> [id |-> Uuid(n)]]
  /\ events = [n \in Nodes |-> NoEvents]
  /\ onNodeCallback = [n \in Nodes |-> "NO_OP"]
  /\ isClosed = [n \in Nodes |-> FALSE]
  /\ listeners = [n \in Nodes |-> 0]
  /\ bound = [n \in Nodes |-> 0]
  /\ declared = [n \in Nodes |-> UNDEF]
  /\ closes = [n \in Nodes |-> 0]
  /\ net = EmptyBag
  /\ ops = 0
  /\ last = [op |-> "new", error |-> NO_ERROR]

\* Every call of the API is counted.
Call == ops' = ops + 1

\* set(config)
Set(n, opts) ==
  /\ Call
  /\ listeners[n] < MaxSets
  /\ LET c1 == Put(config[n], "id", OrS(opts.id, config[n].id))
         c2 == Put(c1, "port", OrN(opts.port, DEFAULT_PORT))
         c3 == Put(c2, "broadcastAddress", OrS(opts.broadcastAddress, BROADCAST_ADDRESS))
         c4 == Put(c3, "name", OrS(opts.name, NULL))
     IN /\ config' = [config EXCEPT ![n] = c4]
        /\ bound' = [bound EXCEPT ![n] = Bind(n, c4.port)]
  /\ listeners' = [listeners EXCEPT ![n] = @ + 1]
  /\ declared' = [declared EXCEPT ![n] = opts.type]
  /\ last' = [op |-> "set", node |-> n, error |-> BindError(n), options |-> opts]
  /\ UNCHANGED <<events, onNodeCallback, isClosed, closes, net>>

\* A call that sends: what it returned, and its datagram put in flight.
Sent(n, op, before, r) ==
  /\ Fits(net (+) Packets(n, r.wire))
  /\ net' = net (+) Packets(n, r.wire)
  /\ last' = [op |-> op, node |-> n, error |-> r.error, before |-> before,
              envelope |-> r.envelope, wire |-> r.wire]
  /\ UNCHANGED <<config, events, onNodeCallback, isClosed, listeners, bound, declared, closes>>

\* A call that threw before it built a message.
Threw(n, op, error, before) ==
  /\ last' = [op |-> op, node |-> n, error |-> error, before |-> before,
              envelope |-> before, wire |-> <<>>]
  /\ UNCHANGED <<config, events, onNodeCallback, isClosed, listeners, bound, declared,
                 closes, net>>

\* broadcast(params); params without a key stands for the key being
\* undefined, and the empty record for no params at all.
Broadcast(n, params) ==
  /\ Call
  /\ IF ~wasSetup(config[n]) THEN Threw(n, "broadcast", ERR_NOT_SETUP, params)
     ELSE LET port == IF Has(params, "port") THEN params.port ELSE 0
              address == IF Has(params, "address") THEN params.address ELSE UNDEF
              base == [type |-> "broadcast", node |-> config[n],
                       data |-> IF Has(params, "data") THEN params.data ELSE UNDEF,
                       port |-> OrN(port, OrN(config[n].port, DEFAULT_PORT)),
                       address |-> OrS(address, config[n].broadcastAddress)]
              message == IF Has(params, "filter") THEN Put(base, "filter", params.filter)
                         ELSE base
          IN Sent(n, "broadcast", params, send(config[n], isClosed[n], message))

\* ping({address, port, data = null})
Ping(n, params) ==
  /\ Call
  /\ IF ~wasSetup(config[n]) THEN Threw(n, "ping", ERR_NOT_SETUP, params)
     ELSE IF ~Has(params, "address") \/ Falsy(params.address)
     THEN Threw(n, "ping", ERR_PING_ADDRESS, params)
     ELSE LET message == [type |-> "ping", node |-> config[n],
                          data |-> IF Has(params, "data") THEN params.data ELSE NULL,
                          port |-> OrN(IF Has(params, "port") THEN params.port ELSE 0,
                                       DEFAULT_PORT),
                          address |-> params.address]
          IN Sent(n, "ping", params, send(config[n], isClosed[n], message))

\* send(message, callback), called by the application
Send(n, message) ==
  /\ Call
  /\ Sent(n, "send", message, send(config[n], isClosed[n], message))

\* onNode(callback)
OnNode(n, callback) ==
  /\ Call
  /\ onNodeCallback' = [onNodeCallback EXCEPT ![n] = callback]
  /\ last' = [op |-> "onNode", node |-> n, error |-> NO_ERROR,
              replaced |-> onNodeCallback[n]]
  /\ UNCHANGED <<config, events, isClosed, listeners, bound, declared, closes, net>>

\* The 'message' event of node n's socket for the datagram message from
\* rinfo, with the other datagrams in flight being rest. The k replies of k
\* listeners are the same datagram, sent k times.
Dispatch(n, message, rinfo, rest) ==
  \E out \in {emitMessage(config[n], onNodeCallback[n], events[n], listeners[n],
                          message, rinfo)} :
  LET replies == IF out.wire = <<>> THEN EmptyBag
                 ELSE [q \in DOMAIN Packets(n, out.wire) |-> Len(out.wire)]
  IN /\ Fits(rest (+) replies)
     /\ \A t \in DOMAIN out.events : Len(out.events[t]) <= MaxHandlers + 1
     /\ net' = rest (+) replies
     /\ events' = [events EXCEPT ![n] = out.events]
     /\ last' = [op |-> "deliver", node |-> n, error |-> NO_ERROR, message |-> message,
                 rinfo |-> rinfo, calls |-> out.calls, handled |-> out.handled,
                 wire |-> out.wire, caught |-> out.caught, invalid |-> out.invalid,
                 raised |-> out.raised]
     /\ UNCHANGED <<config, onNodeCallback, isClosed, listeners, bound, declared,
                    closes, ops>>

\* A datagram in flight reaches its receiver.
Deliver(p) ==
  /\ BagIn(p, net)
  /\ ~isClosed[p.to]
  /\ Dispatch(p.to, p.msg, p.rinfo, net (-) SetToBag({p}))

\* A datagram of a host that is not one of Nodes reaches node n's socket.
Arrive(n, message, rinfo) ==
  /\ bound[n] # 0
  /\ ~isClosed[n]
  /\ Dispatch(n, message, rinfo, net)

\* A datagram in flight to a socket that has closed is lost.
Drop(p) ==
  /\ BagIn(p, net)
  /\ isClosed[p.to]
  /\ net' = net (-) SetToBag({p})
  /\ last' = [op |-> "drop", node |-> p.to, error |-> NO_ERROR]
  /\ UNCHANGED <<config, events, onNodeCallback, isClosed, listeners, bound, declared,
                 closes, ops>>

\* A lifecycle call: what it threw, and this.isClosed before the call.
Returned(n, op, error) ==
  last' = [op |-> op, node |-> n, error |-> error, wasClosed |-> isClosed[n]]

\* A registry call: its arguments, what it threw, and the list the entry held
\* before the call (none: the empty list).
Registry(n, op, type, args, error) ==
  last' = [op |-> op, node |-> n, error |-> error, type |-> type, args |-> args,
           had |-> IF type \in DOMAIN events[n] THEN events[n][type] ELSE <<>>]

\* on(type, callback)
On(n, type, callback) ==
  /\ Call
  /\ UNCHANGED <<config, onNodeCallback, isClosed, listeners, bound, declared, closes, net>>
  /\ IF Falsy(type) THEN Registry(n, "on", type, <<callback>>, ERR_ON_TYPE) /\ UNCHANGED events
     ELSE IF Falsy(callback)
     THEN Registry(n, "on", type, <<callback>>, ERR_ON_CALLBACK) /\ UNCHANGED events
     ELSE IF callback = "notAFunction"
     THEN Registry(n, "on", type, <<callback>>, ERR_ON_NOT_FUNCTION) /\ UNCHANGED events
     ELSE LET list == IF type \in DOMAIN events[n] THEN events[n][type] ELSE <<>>
          IN /\ Len(list) < MaxHandlers
             /\ events' = [events EXCEPT ![n] = Put(@, type, Append(list, callback))]
             /\ Registry(n, "on", type, <<callback>>, NO_ERROR)

\* off(type, index); the empty args stand for index === undefined.
Off(n, type, args) ==
  /\ Call
  /\ UNCHANGED <<config, onNodeCallback, isClosed, listeners, bound, declared, closes, net>>
  /\ IF Falsy(type) THEN Registry(n, "off", type, args, ERR_OFF_TYPE) /\ UNCHANGED events
     ELSE IF args = <<>>
     THEN /\ events' = [events EXCEPT ![n] = deleteEntry(@, type)]
          /\ Registry(n, "off", type, args, NO_ERROR)
     ELSE IF type \notin DOMAIN events[n]
     THEN Registry(n, "off", type, args, ERR_TYPE_ERROR) /\ UNCHANGED events
     ELSE /\ events' = [events EXCEPT ![n] = Put(@, type, Splice1(@[type], args[1]))]
          /\ Registry(n, "off", type, args, NO_ERROR)

\* close without the isClosed guard: this.client.close() is called again,
\* and dgram throws on a socket that is not running.
close_Unguarded(closed) ==
  [error |-> IF closed THEN ERR_NOT_RUNNING ELSE NO_ERROR, isClosed |-> TRUE, closed |-> 1]

\* close(callback): what it throws, this.isClosed after the call and the
\* number of this.client.close() calls it makes.
close(closed) ==
  IF closed THEN [error |-> NO_ERROR, isClosed |-> closed, closed |-> 0]
  ELSE [error |-> NO_ERROR, isClosed |-> TRUE, closed |-> 1]

\* close(callback), called by the application
Close(n) ==
  /\ Call
  /\ UNCHANGED <<config, events, onNodeCallback, listeners, bound, declared, net>>
  /\ LET r == close(isClosed[n])
     IN /\ Returned(n, "close", r.error)
        /\ isClosed' = [isClosed EXCEPT ![n] = r.isClosed]
        /\ closes' = [closes EXCEPT ![n] = @ + r.closed]

\* ------------------------------------------------------------------ inputs

Roles == {"r1", "r2"}

NoParams == [p \in {} |-> 0]

SetOptions ==
  [id : {UNDEF}, port : {0, ALT_PORT}, broadcastAddress : {UNDEF},
   name : {UNDEF}, type : Roles \cup {UNDEF}]

BroadcastParams ==
  {NoParams}
    \cup [port : {DEFAULT_PORT, ALT_PORT}]
    \cup [filter : {<<r>> : r \in Roles}, port : {DEFAULT_PORT, ALT_PORT}]

PingParams == [address : {Addr(n) : n \in Nodes}, port : {0, ALT_PORT}]

Callbacks == {UNDEF, "cb1", "cbRaise"}

\* ---------------------------------------------------------- specifications

Packet == BagToSet(net)

\* Discovery between the nodes: set, onNode, broadcast, ping, an application
\* that sends a pong of its own, and the built-in dispatch.
NextDiscovery ==
  \/ \E n \in Nodes, o \in SetOptions : ops < MaxOps /\ Set(n, o)
  \/ \E n \in Nodes, c \in Callbacks : ops < MaxOps /\ OnNode(n, c)
  \/ \E n \in Nodes, b \in BroadcastParams : ops < MaxOps /\ Broadcast(n, b)
  \/ \E n \in Nodes, g \in PingParams : ops < MaxOps /\ Ping(n, g)
  \/ \E n \in Nodes : ops < MaxOps /\ Send(n, [type |-> "pong"])
  \/ \E p \in Packet : Deliver(p)

SpecDiscovery == Init /\ [][NextDiscovery]_vars


\* ------------------------------------------------- the node and its callers

\* The socket of a host that is not one of Nodes.
FOREIGN == [address |-> "10.0.0.9", port |-> ALT_PORT]

\* What the callers of SpecNode pass.
NodeSetOptions ==
  [id : {UNDEF, "shared"}, port : {0, ALT_PORT}, broadcastAddress : {UNDEF},
   name : {UNDEF}, type : {UNDEF, "r1"}]

NodeBroadcastParams == {NoParams, [filter |-> <<"r1">>], [filter |-> <<"r2">>]}

NodePingParams ==
  {NoParams, [port |-> ALT_PORT], [address |-> ""], [address |-> Addr("n1")],
   [address |-> Addr("n2"), port |-> ALT_PORT]}

NodeSendMessages ==
  {NoParams, [type |-> ""], [from |-> "someone", port |-> ALT_PORT, address |-> Addr("n2")],
   [type |-> "pong", from |-> "someone"]}

NextNode ==
  \/ \E n \in Nodes, o \in NodeSetOptions : ops < MaxCalls /\ Set(n, o)
  \/ \E n \in Nodes, c \in Callbacks : ops < MaxCalls /\ OnNode(n, c)
  \/ \E n \in Nodes, b \in NodeBroadcastParams : ops < MaxCalls /\ Broadcast(n, b)
  \/ \E n \in Nodes, g \in NodePingParams : ops < MaxCalls /\ Ping(n, g)
  \/ \E n \in Nodes, m \in NodeSendMessages : ops < MaxCalls /\ Send(n, m)
  \/ \E p \in Packet : Deliver(p)

SpecNode == Init /\ [][NextNode]_vars

\* ------------------------------------------------------------ the registry

\* What the callers of SpecRegistry pass; the registry is a node's own, so
\* one node, the datagrams it sends to itself and the datagrams of a foreign
\* host are all there is to it.
RegistryNodes == {"n1"}

EventTypes == {"hello", "bye"}

Handlers == {"h1", "h2", "hRaise"}

CustomMessage(type) == [type |-> type, text |-> "hey"]

\* off(type), off(type, 0), off(type, 1)
OffArgs == {<<>>, <<0>>, <<1>>}

NextRegistry ==
  \/ \E n \in RegistryNodes :
       ops < MaxRegistryCalls
         /\ Set(n, [id |-> UNDEF, port |-> 0, broadcastAddress |-> UNDEF,
                    name |-> UNDEF, type |-> UNDEF])
  \/ \E n \in RegistryNodes, t \in EventTypes, h \in Handlers :
       ops < MaxRegistryCalls /\ On(n, t, h)
  \/ \E n \in RegistryNodes, t \in EventTypes, a \in OffArgs :
       ops < MaxRegistryCalls /\ Off(n, t, a)
  \/ \E n \in RegistryNodes : ops < MaxRegistryCalls /\ Send(n, CustomMessage("hello"))
  \/ \E p \in Packet : Deliver(p)
  \/ \E n \in RegistryNodes, t \in EventTypes :
       Arrive(n, Put(CustomMessage(t), "from", "uuid-9"), FOREIGN)

SpecRegistry == Init /\ [][NextRegistry]_vars

\* ------------------------------------------------------------------ claims

\* The last step dispatched a datagram of one of the given types at node n.
Delivered(n, types) ==
  /\ last.op = "deliver"
  /\ last.node = n
  /\ TypeOf(last.message) \in types

\* ... and the datagram was sent by node a's socket.
DeliveredFrom(a, n, types) == Delivered(n, types) /\ last.rinfo.address = Addr(a)

\* w is a pong of node n for the requester at rinfo.
IsPongOf(w, n, rinfo) ==
  /\ w.type = "pong"
  /\ w.address = rinfo.address
  /\ w.port = rinfo.port
  /\ w.node.id = config[n].id

\* C1: for configured nodes A and B with distinct ids and no declared roles,
\* a broadcast of A delivered to B makes B emit a pong addressed to the
\* datagram's source address and port with node.id = B's id, and that pong
\* delivered to A invokes A's discovery callback with it.
C1_BroadcastIsAnswered ==
  \A a \in Nodes : \A b \in Nodes \ {a} :
    (/\ declared[a] = UNDEF /\ declared[b] = UNDEF
     /\ config[a].id # config[b].id)
    => /\ DeliveredFrom(a, b, {"broadcast"})
          => /\ last.wire # <<>>
             /\ \A i \in 1..Len(last.wire) : IsPongOf(last.wire[i], b, last.rinfo)
       /\ (DeliveredFrom(b, a, {"pong"}) /\ Has(last.message, "node"))
          => /\ last.calls # <<>>
             /\ \A i \in 1..Len(last.calls) :
                  /\ last.calls[i].message = last.message
                  /\ last.calls[i].message.type = "pong"

\* C2: for A set up with role r1 and B with role r2, r1 # r2, a broadcast of
\* A with filter = [r1] delivered to B makes B emit no pong and invoke no
\* discovery callback; with filter = [r2] or no filter, B emits a pong.
C2_RoleFilter ==
  \A a \in Nodes : \A b \in Nodes \ {a} :
    (/\ declared[a] \in Roles /\ declared[b] \in Roles
     /\ declared[a] # declared[b]
     /\ DeliveredFrom(a, b, {"broadcast"}))
    => IF Has(last.message, "filter") /\ last.message.filter = <<declared[a]>>
       THEN last.wire = <<>> /\ last.calls = <<>>
       ELSE IF ~Has(last.message, "filter") \/ last.message.filter = <<declared[b]>>
       THEN last.wire # <<>>
       ELSE TRUE

\* C4: a configured node that receives a ping or broadcast passing the
\* interest filter emits a pong, after invoking the discovery callback,
\* whatever the discovery-callback slot holds.
C4_AlwaysReplies ==
  \A n \in Nodes :
    (Delivered(n, {"ping", "broadcast"}) /\ isNodeOfInterest(config[n], last.message))
    => /\ last.wire # <<>>
       /\ \A i \in 1..Len(last.wire) : IsPongOf(last.wire[i], n, last.rinfo)

\* The replies node n gives to message had it arrived as a broadcast.
AsBroadcast(n) ==
  emitMessage(config[n], onNodeCallback[n], events[n], listeners[n],
              [last.message EXCEPT !.type = "broadcast"], last.rinfo).wire

\* C5: a ping of A delivered to a configured B yields, once B's pong is
\* delivered, a discovery-callback invocation at A whose envelope carries
\* B's identity snapshot, and the pong equals the one B sends in reply to a
\* broadcast from the same source address and port.
C5_PingYieldsIdentity ==
  \A a \in Nodes : \A b \in Nodes \ {a} :
    /\ DeliveredFrom(a, b, {"ping"})
       => /\ last.wire = AsBroadcast(b)
          /\ \A i \in 1..Len(last.wire) : last.wire[i].node = config[b]
    /\ (DeliveredFrom(b, a, {"pong"}) /\ Has(last.message, "node"))
       => /\ last.calls # <<>>
          /\ \A i \in 1..Len(last.calls) : last.calls[i].message = last.message

\* C6: receiving a pong always invokes the discovery callback, also when
\* `from` is the receiver's own id, and emits nothing; a delivered ping or
\* broadcast produces at most one pong at its receiver.
C6_PongIsTerminal ==
  \A n \in Nodes :
    /\ Delivered(n, {"pong"}) => last.calls # <<>> /\ last.wire = <<>>
    /\ Delivered(n, {"ping", "broadcast"}) => Len(last.wire) <= 1

\* C3: self-suppression: a node that receives a ping or broadcast whose
\* `from` equals its own id neither invokes its discovery callback nor emits
\* a pong, whatever the envelope's filter is.
C3_SelfSuppression ==
  \A n \in Nodes :
    (/\ Delivered(n, {"ping", "broadcast"})
     /\ Has(last.message, "from")
     /\ last.message.from = config[n].id)
    => last.calls = <<>> /\ last.wire = <<>>

\* A node with a registered callback received its own unfiltered broadcast.
C3_Witness ==
  \E n \in Nodes :
    /\ DeliveredFrom(n, n, {"broadcast"})
    /\ last.message.from = config[n].id
    /\ ~Has(last.message, "filter")
    /\ onNodeCallback[n] = "cb1"

\* The last step was a call of ping, broadcast or send by node n.
SendCall(n) ==
  /\ ops' = ops + 1
  /\ last'.op \in {"ping", "broadcast", "send"}
  /\ last'.node = n

Untouched ==
  UNCHANGED <<config, events, onNodeCallback, isClosed, listeners, bound, declared,
              closes, net>>

\* C7: on a node on which set() was never called, ping, broadcast and send
\* fail with the not-configured error and emit no datagram, also when the
\* address or the type is missing.
C7_NotConfigured ==
  [][\A n \in Nodes :
       (SendCall(n) /\ listeners[n] = 0)
       => /\ last'.error = ERR_NOT_SETUP
          /\ last'.wire = <<>>
          /\ net' = net]_vars

\* send({}) was called on a node that was never set up.
C7_Witness ==
  /\ last.op = "send"
  /\ last.before = NoParams
  /\ listeners[last.node] = 0
  /\ last.error = ERR_NOT_SETUP

NoAddress(params) == ~Has(params, "address") \/ Falsy(params.address)

NoType(message) == ~Has(message, "type") \/ Falsy(message.type)

\* C8: on a configured node, ping without an address fails with the
\* missing-address error and send without a type with the missing-type
\* error; no datagram is handed to the transport and neither the node nor
\* the caller's envelope changes.
C8_MalformedRequest ==
  [][\A n \in Nodes :
       (SendCall(n) /\ listeners[n] > 0)
       => /\ (last'.op = "ping" /\ NoAddress(last'.before))
             => /\ last'.error = ERR_PING_ADDRESS
                /\ last'.wire = <<>>
                /\ last'.envelope = last'.before
                /\ Untouched
          /\ (last'.op = "send" /\ NoType(last'.before))
             => /\ last'.error = ERR_SEND_TYPE
                /\ last'.wire = <<>>
                /\ last'.envelope = last'.before
                /\ Untouched]_vars

\* A configured node was asked to send an envelope that has a `from`, a port
\* and an address but no type.
C8_Witness ==
  /\ last.op = "send"
  /\ listeners[last.node] > 0
  /\ last.error = ERR_SEND_TYPE
  /\ Has(last.before, "from")
  /\ last.envelope.from = "someone"

\* C9: for a type x that is not built in, a delivered x-typed datagram
\* invokes every registered handler exactly once, in registration order,
\* with the decoded envelope and the sender info, emits no datagram, and is
\* dispatched whoever sent it.
C9_CustomDispatch ==
  \A n \in Nodes : \A x \in EventTypes :
    (Delivered(n, {x}) /\ x \in DOMAIN events[n])
    => /\ last.handled =
            [i \in 1..Len(events[n][x]) |->
               Invocation(events[n][x][i], last.message, last.rinfo)]
       /\ last.wire = <<>>

\* C10: off(x) without an index removes the whole entry of x, however many
\* handlers it held, and leaves the other entries as they were; an x-typed
\* datagram delivered while x has no entry invokes no handler and is treated
\* as an invalid message.
C10_OffRemovesEntry ==
  [][\A n \in Nodes :
       /\ (/\ ops' = ops + 1
           /\ last'.op = "off" /\ last'.node = n
           /\ last'.args = <<>> /\ ~Falsy(last'.type))
          => /\ last'.error = NO_ERROR
             /\ last'.type \notin DOMAIN events'[n]
             /\ DOMAIN events'[n] = DOMAIN events[n] \ {last'.type}
             /\ \A t \in DOMAIN events'[n] : events'[n][t] = events[n][t]
       /\ (/\ last'.op = "deliver" /\ last'.node = n
           /\ TypeOf(last'.message) \in EventTypes \ DOMAIN events'[n])
          => /\ last'.handled = <<>>
             /\ last'.calls = <<>>
             /\ last'.wire = <<>>
             /\ last'.invalid]_vars

\* off("hello") removed an entry of two handlers while "bye" had an entry.
C10_Witness ==
  /\ last.op = "off"
  /\ last.args = <<>>
  /\ last.type = "hello"
  /\ Len(last.had) = 2
  /\ "hello" \notin DOMAIN events[last.node]
  /\ "bye" \in DOMAIN events[last.node]

\* ----------------------------------------------------------- the lifecycle

\* What the callers of SpecLifecycle pass.
LifeSetOptions ==
  [id : {UNDEF, "mine"}, port : {0, ALT_PORT}, broadcastAddress : {UNDEF},
   name : {"node1"}, type : {"r1"}]

\* Nodes that are set up again, closed and closed again while their
\* broadcasts are in flight.
NextLifecycle ==
  \/ \E n \in Nodes, o \in LifeSetOptions : ops < MaxLifeCalls /\ Set(n, o)
  \/ \E n \in Nodes : ops < MaxLifeCalls /\ Close(n)
  \/ \E n \in Nodes : ops < MaxLifeCalls /\ Broadcast(n, NoParams)
  \/ \E p \in Packet : Deliver(p)
  \/ \E p \in Packet : Drop(p)

SpecLifecycle == Init /\ [][NextLifecycle]_vars

\* The last step was a call of close() by node n.
CloseCall(n) ==
  /\ ops' = ops + 1
  /\ last'.op = "close"
  /\ last'.node = n

\* C12: close is idempotent: the transport's close is invoked at most once
\* per node over any sequence of operations; the first close() sets the
\* closed flag and closes the transport, and every later close() raises no
\* error, does not touch the transport and changes no state.
C12_CloseIsIdempotent ==
  [][\A n \in Nodes :
       /\ closes'[n] <= 1
       /\ CloseCall(n)
          => /\ last'.error = NO_ERROR
             /\ isClosed'[n]
             /\ IF isClosed[n] THEN closes'[n] = closes[n] /\ Untouched
                ELSE closes'[n] = closes[n] + 1]_vars

\* A configured node with a datagram in flight was closed a second time.
C12_Witness ==
  /\ last.op = "close"
  /\ last.wasClosed
  /\ last.error = NO_ERROR
  /\ closes[last.node] = 1
  /\ wasSetup(config[last.node])
  /\ net # EmptyBag

\* The last step was a call of set() by node n.
SetCall(n) ==
  /\ ops' = ops + 1
  /\ last'.op = "set"
  /\ last'.node = n

\* C13: set may be called again on a configured node: the call succeeds, the
\* mutable fields (port, broadcast address, role, name) take the supplied or
\* default values, and the id stays unless the options supply one; over any
\* sequence of operations the id changes only through a set that supplies
\* an id, and a configured node never becomes unconfigured.
C13_Reconfigure ==
  [][\A n \in Nodes :
       /\ (SetCall(n) /\ wasSetup(config[n]))
          => /\ last'.error = NO_ERROR
             /\ config'[n].port = OrN(last'.options.port, DEFAULT_PORT)
             /\ config'[n].broadcastAddress =
                  OrS(last'.options.broadcastAddress, BROADCAST_ADDRESS)
             /\ config'[n].name = OrS(last'.options.name, NULL)
             /\ last'.options.type # UNDEF
                => Has(config'[n], "type") /\ config'[n].type = last'.options.type
             /\ last'.options.id = UNDEF => config'[n].id = config[n].id
       /\ config'[n].id # config[n].id
          => SetCall(n) /\ last'.options.id = config'[n].id
       /\ wasSetup(config[n]) => wasSetup(config'[n])]_vars

\* C11: off(x, i) with an index i that is valid for x's handler list removes
\* exactly the handler at position i, keeps the other handlers of x in their
\* order, keeps the entry of x even when the list becomes empty and leaves
\* the entries of the other types as they were.
C11_OffRemovesOne ==
  [][\A n \in Nodes :
       (/\ ops' = ops + 1
        /\ last'.op = "off" /\ last'.node = n
        /\ last'.args # <<>>
        /\ last'.type \in DOMAIN events[n]
        /\ last'.args[1] >= 0 /\ last'.args[1] < Len(events[n][last'.type]))
       => LET x == last'.type
              i == last'.args[1]
              old == events[n][x]
          IN /\ last'.error = NO_ERROR
             /\ DOMAIN events'[n] = DOMAIN events[n]
             /\ \A t \in DOMAIN events[n] \ {x} : events'[n][t] = events[n][t]
             /\ Len(events'[n][x]) = Len(old) - 1
             /\ \A j \in 1..(Len(old) - 1) :
                  events'[n][x][j] = IF j <= i THEN old[j] ELSE old[j + 1]]_vars

\* off("hello", 0) took the first of two different handlers while "bye" had
\* an entry.
C11_Witness ==
  /\ last.op = "off"
  /\ last.args = <<0>>
  /\ last.type = "hello"
  /\ Len(last.had) = 2
  /\ last.had[1] # last.had[2]
  /\ events[last.node]["hello"] = <<last.had[2]>>
  /\ "bye" \in DOMAIN events[last.node]

\* ------------------------------------------------------ inbound datagrams

BUILT_IN == {"ping", "pong", "broadcast"}

\* The datagrams a foreign host sends to a node: the three built-in kinds,
\* a custom message, a type nobody registers, a message without a type, a
\* type that names an inherited property, and two that do not decode.
InboundDatagrams ==
  {[type |-> t, from |-> "uuid-9"] : t \in BUILT_IN \cup {"nope", "constructor"}}
    \cup {Put(CustomMessage("hello"), "from", "uuid-9"), [text |-> "hey"],
          UNDECODABLE, JSON_NULL}

\* What the application registers with on().
InboundHandlers ==
  {<<t, "h1">> : t \in BUILT_IN} \cup {<<"hello", "h1">>, <<"hello", "hRaise">>}

\* One node, its registrations and the datagrams of a foreign host.
NextInbound ==
  \/ \E n \in RegistryNodes :
       ops < MaxInboundCalls
         /\ Set(n, [id |-> UNDEF, port |-> 0, broadcastAddress |-> UNDEF,
                    name |-> UNDEF, type |-> UNDEF])
  \/ \E n \in RegistryNodes, c \in Callbacks : ops < MaxInboundCalls /\ OnNode(n, c)
  \/ \E n \in RegistryNodes, r \in InboundHandlers :
       ops < MaxInboundCalls /\ On(n, r[1], r[2])
  \/ \E n \in RegistryNodes, d \in InboundDatagrams : Arrive(n, d, FOREIGN)

SpecInbound == Init /\ [][NextInbound]_vars

\* The last step was the dispatch of a datagram at node n.
DeliverStep(n) ==
  /\ ops' = ops
  /\ last'.op = "deliver"
  /\ last'.node = n

\* The dispatch left the node as it was: its config, registry, callback
\* slot, listeners and socket are all a later dispatch reads.
NodeKept ==
  UNCHANGED <<config, events, onNodeCallback, isClosed, listeners, bound, declared, closes>>

\* C14: inbound errors are non-fatal: a delivered datagram that cannot be
\* decoded, or whose type is neither built in nor in the registry, invokes
\* no discovery callback and no handler, emits no datagram, raises nothing
\* out of the dispatcher and leaves config, registry and callback slot
\* unchanged, and every datagram delivered afterwards is dispatched as if
\* the bad one had never arrived; the same holds when an invoked
\* application callback raises.
C14_InboundErrorsNonFatal ==
  [][\A n \in Nodes :
       DeliverStep(n)
       => /\ ~last'.raised
          /\ (\/ ~Decodes(last'.message)
              \/ TypeOf(last'.message) \notin BUILT_IN \cup DOMAIN events[n])
             => /\ last'.calls = <<>>
                /\ last'.handled = <<>>
                /\ last'.wire = <<>>
                /\ net' = net
          /\ (\/ ~Decodes(last'.message)
              \/ TypeOf(last'.message) \notin BUILT_IN \cup DOMAIN events[n]
              \/ last'.caught)
             => NodeKept]_vars

\* A node with a callback and a handler received a datagram that is not
\* JSON.
C14_Witness ==
  /\ last.op = "deliver"
  /\ last.message = UNDECODABLE
  /\ last.caught
  /\ onNodeCallback[last.node] = "cb1"
  /\ "hello" \in DOMAIN events[last.node]

\* C18: built-in kinds take precedence over the registry: handlers
\* registered with on('ping', h), on('pong', h) or on('broadcast', h) are
\* never invoked by a delivered datagram; a message of a built-in kind is
\* handled by the built-in ping/pong/broadcast rule alone.
C18_BuiltInPrecedence ==
  \A n \in Nodes :
    /\ last.op = "deliver" /\ last.node = n
       => \A i \in 1..Len(last.handled) : TypeOf(last.handled[i].message) \notin BUILT_IN
    /\ Delivered(n, BUILT_IN)
       => LET alone == emitMessage(config[n], onNodeCallback[n], NoEvents, listeners[n],
                                   last.message, last.rinfo)
          IN /\ last.handled = <<>>
             /\ last.calls = alone.calls
             /\ last.wire = alone.wire

\* A pong reached a node that has a handler registered for "pong".
C18_Witness ==
  /\ Delivered(last.node, {"pong"})
  /\ "pong" \in DOMAIN events[last.node]
  /\ events[last.node]["pong"] # <<>>
  /\ last.calls # <<>>

\* C15: the discovery callback is a single slot, last registration wins:
\* after onNode(c1) followed by onNode(c2), a later ping or broadcast that
\* passes the interest filter and a later pong invoke c2 exactly once and
\* never c1, and a ping or broadcast that fails the filter invokes neither.
\* Stated for the first datagram dispatched after the second registration.
C15_LastRegistrationWins ==
  [][\A n \in Nodes :
       (/\ DeliverStep(n)
        /\ last.op = "onNode" /\ last.node = n
        /\ last.replaced \in {"cb1", "cbRaise"}
        /\ onNodeCallback[n] \in {"cb1", "cbRaise"} \ {last.replaced}
        /\ TypeOf(last'.message) \in BUILT_IN)
       => IF \/ TypeOf(last'.message) = "pong"
             \/ isNodeOfInterest(config[n], last'.message)
          THEN last'.calls =
                 <<Invocation(onNodeCallback[n], last'.message, last'.rinfo)>>
          ELSE last'.calls = <<>>]_vars

\* C20: each delivered datagram is dispatched exactly once per node, however
\* many times set() was called on the node before: one delivered ping or
\* broadcast of interest causes one discovery-callback invocation and one
\* pong, and one delivered custom message invokes each registered handler
\* once: what one listener does.
C20_DispatchedOnce ==
  \A n \in Nodes :
    (last.op = "deliver" /\ last.node = n /\ listeners[n] > 0)
    => LET once == emitMessage(config[n], onNodeCallback[n], events[n], 1,
                               last.message, last.rinfo)
       IN /\ last.calls = once.calls
          /\ last.wire = once.wire
          /\ last.handled = once.handled

\* ------------------------------------------- handlers that change the registry

\* Handlers that call off and on for their own type while it is dispatched.
ReentrantHandlers == {"h1", "hOff0", "hOffAll", "hOn"}

NextReentrant ==
  \/ \E n \in RegistryNodes :
       ops < MaxReentrantCalls
         /\ Set(n, [id |-> UNDEF, port |-> 0, broadcastAddress |-> UNDEF,
                    name |-> UNDEF, type |-> UNDEF])
  \/ \E n \in RegistryNodes, h \in ReentrantHandlers :
       ops < MaxReentrantCalls /\ On(n, "hello", h)
  \/ \E n \in RegistryNodes :
       Arrive(n, Put(CustomMessage("hello"), "from", "uuid-9"), FOREIGN)

SpecReentrant == Init /\ [][NextReentrant]_vars

\* C16: registry changes made while a dispatch is in progress do not corrupt
\* it: when a handler invoked for an x-typed message calls off(x), off(x, i)
\* or on(x, h') during the dispatch, every handler that was in x's list when
\* the dispatch began is still invoked exactly once, in order, for that
\* message, and a handler added during the dispatch is not invoked for it.
\* Stated for a node with a single listener, where the message is
\* dispatched once.
C16_DispatchIsProtected ==
  [][\A n \in Nodes : \A x \in EventTypes :
       (/\ DeliverStep(n)
        /\ listeners[n] = 1
        /\ TypeOf(last'.message) = x
        /\ x \in DOMAIN events[n])
       => last'.handled =
            [i \in 1..Len(events[n][x]) |->
               Invocation(events[n][x][i], last'.message, last'.rinfo)]]_vars

\* C17: every datagram a node hands to the transport, through send, ping,
\* broadcast or the automatic pong, has `from` equal to the sending node's
\* id at the time of the send, also when the caller's envelope already
\* carries another `from`.
C17_FromIsSenderId ==
  \A n \in Nodes :
    (last.op \in {"send", "ping", "broadcast", "deliver"} /\ last.node = n)
    => \A i \in 1..Len(last.wire) :
         /\ Has(last.wire[i], "from")
         /\ last.wire[i].from = config[n].id

\* A node whose id was set by the application sent an envelope that came
\* with a `from` of its own.
C17_Witness ==
  /\ last.op = "send"
  /\ Has(last.before, "from")
  /\ last.before.from = "someone"
  /\ last.wire # <<>>
  /\ config[last.node].id = "shared"
  /\ last.wire[1].from = "shared"

\* A ping of a foreign host.
FOREIGN_PING == [type |-> "ping", from |-> "uuid-9"]

\* C19: the dispatcher is stateless between messages: handling a delivered
\* datagram leaves the node's config, registry, callback slot and closed
\* flag unchanged (no callback of this specification changes them), and the
\* outcome of a dispatch depends only on the datagram and on those four
\* pieces of state: two nodes that agree on them answer the same datagram
\* in the same way.
C19_DispatcherIsStateless ==
  [][/\ \A n \in Nodes :
          DeliverStep(n) => UNCHANGED <<config, events, onNodeCallback, isClosed>>
     /\ \A a \in Nodes : \A b \in Nodes \ {a} :
          (/\ config'[a] = config'[b]
           /\ events'[a] = events'[b]
           /\ onNodeCallback'[a] = onNodeCallback'[b]
           /\ isClosed'[a] = isClosed'[b])
          => LET ra == emitMessage(config'[a], onNodeCallback'[a], events'[a],
                                   listeners'[a], FOREIGN_PING, FOREIGN)
                 rb == emitMessage(config'[b], onNodeCallback'[b], events'[b],
                                   listeners'[b], FOREIGN_PING, FOREIGN)
             IN ra.calls = rb.calls /\ ra.wire = rb.wire]_vars

=============================================================================
